---- MODULE Spec2Model ----
(***************************************************************************)
(* A model of src/app.py: the number formatter (format_number), the        *)
(* metrics deriver (get_financial_metrics), the data fetcher               *)
(* (get_stock_data) and the script's render pass.                          *)
(*                                                                         *)
(* Python values are records with a "kind" field:                          *)
(*   [kind |-> "none"]                          None                       *)
(*   [kind |-> "num", neg, whole, milli]        an int or a float          *)
(*   [kind |-> "bool", b]                       True / False               *)
(*   [kind |-> "str", s]                        a str, s a sequence of     *)
(*                                              one-character strings      *)
(*   [kind |-> "dict", len]                     a dict with len entries    *)
(*   [kind |-> "exc", type]                     a raised exception         *)
(*                                                                         *)
(* A number is kept in exact decimal: its magnitude is whole + milli/1000  *)
(* and neg is its sign bit (neg with magnitude 0 is the float -0.0).       *)
(* Where the exact decimal value lies half way between two 2-digit         *)
(* results, the binary double that Python really holds lies just below,    *)
(* just above or on the half-way point, depending on the operand; the      *)
(* variable tiesUp admits both outcomes.                                   *)
(***************************************************************************)
EXTENDS Integers, Sequences, FiniteSets, TLC

VARIABLES
    tiesUp,         \* direction in which a decimal half-way case falls in binary
    num,            \* format_number: the argument of the last call
    formatted,      \* format_number: what the last call returned
    info,           \* get_financial_metrics: the argument of the last call
    metrics_df,     \* get_financial_metrics: what the last call returned or raised
    text_input,     \* render pass: the text typed in the symbol field
    selected_period,\* render pass: the label chosen in the select box
    response,       \* render pass: what the provider client does in the fetch
    page            \* render pass: the elements rendered, in order

vars == <<tiesUp, num, formatted, info, metrics_df, text_input, selected_period, response, page>>

-----------------------------------------------------------------------------
(* Bounds of the model.                                                    *)

\* Numbers within MaxDelta of each magnitude threshold are formatted.
MaxDelta == 2
\* At most MaxKeys keys are present at once in a record with arbitrary values.
MaxKeys == 2

-----------------------------------------------------------------------------
(* Python values.                                                          *)

None == [kind |-> "none"]
Num(neg, whole, milli) == [kind |-> "num", neg |-> neg, whole |-> whole, milli |-> milli]
Bool(b) == [kind |-> "bool", b |-> b]
Str(s) == [kind |-> "str", s |-> s]
Dict(len) == [kind |-> "dict", len |-> len]
Raised(type) == [kind |-> "exc", type |-> type]

\* Units per whole in the milli field of a number.
MilliPerUnit == 10 * 10 * 10

\* bool is a subclass of int: True is 1 and False is 0 in arithmetic.
AsNumber(v) ==
    IF v.kind = "bool" THEN Num(FALSE, IF v.b THEN 1 ELSE 0, 0) ELSE v

\* bool(v): the truth value Python's `if v` and `a and b` test.
Truthy(v) ==
    CASE v.kind = "none" -> FALSE
      [] v.kind = "num"  -> v.whole # 0 \/ v.milli # 0
      [] v.kind = "bool" -> v.b
      [] v.kind = "str"  -> Len(v.s) > 0
      [] v.kind = "dict" -> v.len > 0
      [] OTHER -> TRUE

\* isinstance(v, (int, float)); True and False are ints.
IsIntOrFloat(v) == v.kind \in {"num", "bool"}

\* isinstance(v, str)
IsStr(v) == v.kind = "str"

RECURSIVE Repeat(_, _)
Repeat(s, n) == IF n = 0 THEN <<>> ELSE s \o Repeat(s, n - 1)

\* v * n for an int n: product of numbers, repetition of a str, TypeError for a
\* dict or None.
Times(v, n) ==
    CASE v.kind \in {"num", "bool"} ->
            LET a == AsNumber(v)
                m == a.milli * n
            IN  Num(a.neg, a.whole * n + m \div MilliPerUnit, m % MilliPerUnit)
      [] v.kind = "str" -> Str(Repeat(v.s, n))
      [] OTHER -> Raised("TypeError")

-----------------------------------------------------------------------------
(* Text.                                                                   *)

DigitChar == <<"0", "1", "2", "3", "4", "5", "6", "7", "8", "9">>

RECURSIVE Digits(_)
\* The decimal digits of a natural number.
Digits(n) ==
    IF n < 10 THEN <<DigitChar[n + 1]>>
    ELSE Digits(n \div 10) \o <<DigitChar[(n % 10) + 1]>>

\* The quotient num / divisor rounded to hundredths, as a count of hundredths
\* of its magnitude. divisor is 1 or a power of ten that is at least 100.
Hundredths(n, divisor) ==
    LET perHundredth == divisor \div 100
        q    == IF divisor = 1 THEN n.whole * 100 + n.milli \div 10
                ELSE n.whole \div perHundredth
        rem2 == IF divisor = 1 THEN 2 * (n.milli % 10)
                ELSE 2 * (n.whole % perHundredth)
        den  == IF divisor = 1 THEN 10 ELSE perHundredth
        more == divisor # 1 /\ n.milli > 0
        up   == rem2 > den \/ (rem2 = den /\ more)
        tie  == rem2 = den /\ ~more
    IN  IF up \/ (tie /\ tiesUp) THEN q + 1 ELSE q

-----------------------------------------------------------------------------
(* format_number                                                           *)

Billion == 1000000000
Million == 1000000
Thousand == 1000

NotAvailable == <<"N", "/", "A">>

\* abs(n) > t: the comparison a formatter that put the boundary value in the
\* lower band would make.
AbsGreater(n, t) == n.whole > t \/ (n.whole = t /\ n.milli > 0)

\* abs(n) >= t for an integer threshold t
AbsAtLeast(n, t) == n.whole >= t

\* A formatter that prints the sign only of a result that is not zero.
FormatFixed2DropsZeroSign(n, divisor) ==
    LET h == Hundredths(n, divisor)
    IN  (IF n.neg /\ h > 0 THEN <<"-">> ELSE <<>>)
        \o Digits(h \div 100)
        \o <<".", DigitChar[((h % 100) \div 10) + 1], DigitChar[(h % 10) + 1]>>

\* f"{n / divisor:.2f}": sign, integer digits, a point and two digits.
FormatFixed2(n, divisor) ==
    LET h == Hundredths(n, divisor)
    IN  (IF n.neg THEN <<"-">> ELSE <<>>)
        \o Digits(h \div 100)
        \o <<".", DigitChar[((h % 100) \div 10) + 1], DigitChar[(h % 10) + 1]>>

format_number(v) ==
    IF v = None THEN Str(NotAvailable)
    ELSE IF IsStr(v) THEN v
    ELSE IF ~IsIntOrFloat(v) THEN Raised("TypeError")
    ELSE LET n == AsNumber(v)
         IN  IF AbsAtLeast(n, Billion)
                 THEN Str(<<"$">> \o FormatFixed2(n, Billion) \o <<"B">>)
             ELSE IF AbsAtLeast(n, Million)
                 THEN Str(<<"$">> \o FormatFixed2(n, Million) \o <<"M">>)
             ELSE IF AbsAtLeast(n, Thousand)
                 THEN Str(<<"$">> \o FormatFixed2(n, Thousand) \o <<"K">>)
             ELSE Str(<<"$">> \o FormatFixed2(n, 1))

-----------------------------------------------------------------------------
(* The formatter on its own: every input of FormatInputs is formatted once. *)

Pending == [kind |-> "pending"]

Thresholds == {0, Thousand, Million, Billion}

\* Whole parts around each threshold t, around 1.005 t (where the quotient by t
\* lies half way between two 2-digit results) and around 2e9.
Wholes ==
    {w \in UNION {(t - MaxDelta)..(t + MaxDelta) : t \in Thresholds} : w >= 0}
    \cup UNION {(t + t \div 200 - MaxDelta)..(t + t \div 200 + MaxDelta) :
                    t \in Thresholds \ {0}}
    \cup (2 * Billion - MaxDelta)..(2 * Billion + MaxDelta)

Millis == {0, 1, 4, 5, 6, 25, 500, 994, 995, 999}

FormatNumbers == {Num(neg, w, m) : neg \in BOOLEAN, w \in Wholes, m \in Millis}

FormatInputs ==
    FormatNumbers
    \cup {None, Bool(TRUE), Bool(FALSE), Str(<<>>), Str(<<"B", "u", "y">>), Dict(1)}

InitIdle ==
    /\ info = <<>>
    /\ metrics_df = Pending
    /\ text_input = <<>>
    /\ selected_period = "1 Month"
    /\ response = Pending
    /\ page = Pending

InitFormat ==
    /\ tiesUp \in BOOLEAN
    /\ num \in FormatInputs
    /\ formatted = Pending
    /\ InitIdle

CallFormatNumber ==
    /\ formatted = Pending
    /\ formatted' = format_number(num)
    /\ UNCHANGED <<tiesUp, num, info, metrics_df, text_input, selected_period, response, page>>

NextFormat == CallFormatNumber

SpecFormat == InitFormat /\ [][NextFormat]_vars

-----------------------------------------------------------------------------
(* get_financial_metrics                                                   *)

\* d.get(key, 0): a lookup that yields zero for a missing key.
GetOrZero(d, key, default) == IF key \in DOMAIN d THEN d[key] ELSE Num(FALSE, 0, 0)

\* d.get(key, default) of a dict d, a function from its keys.
Get(d, key, default) == IF key \in DOMAIN d THEN d[key] ELSE default

\* An insertion-ordered dict is a sequence of <<key, value>> pairs.
HasKey(m, key) == \E i \in 1..Len(m) : m[i][1] = key

\* An assignment that leaves out a key whose value is None.
SetItemSkipsNone(m, key, value) ==
    IF value = None THEN m
    ELSE IF HasKey(m, key)
    THEN [i \in 1..Len(m) |-> IF m[i][1] = key THEN <<key, value>> ELSE m[i]]
    ELSE Append(m, <<key, value>>)

\* m[key] = value: replaces the value of a key already there, in place, and
\* appends a new key.
SetItem(m, key, value) ==
    IF HasKey(m, key)
    THEN [i \in 1..Len(m) |-> IF m[i][1] = key THEN <<key, value>> ELSE m[i]]
    ELSE Append(m, <<key, value>>)

Hundred == 100

\* info.get("dividendYield", 0) * 100 if info.get("dividendYield") else None
DividendYieldPercent(i) ==
    IF Truthy(Get(i, "dividendYield", None))
    THEN Times(Get(i, "dividendYield", Num(FALSE, 0, 0)), Hundred)
    ELSE None

\* format_number(val) if isinstance(val, (int, float)) else "N/A"
FormatCell(val) ==
    IF IsIntOrFloat(val) THEN format_number(val) ELSE Str(NotAvailable)

\* pd.DataFrame({'Metric': list(metrics.keys()), 'Value': [...]})
DataFrame(metric, value) == [kind |-> "df", Metric |-> metric, Value |-> value]

\* The statements of the function run in order; the one that computes the
\* dividend yield may raise, and then the call raises and returns nothing.
get_financial_metrics(i) ==
    LET m1  == SetItem(<<>>, "Market Cap", Get(i, "marketCap", None))
        m2  == SetItem(m1, "PE Ratio", Get(i, "trailingPE", None))
        m3  == SetItem(m2, "EPS (TTM)", Get(i, "trailingEps", None))
        dy  == DividendYieldPercent(i)
        m4  == SetItem(m3, "Dividend Yield", dy)
        m5  == SetItem(m4, "52 Week High", Get(i, "fiftyTwoWeekHigh", None))
        m6  == SetItem(m5, "52 Week Low", Get(i, "fiftyTwoWeekLow", None))
        m7  == SetItem(m6, "50 Day Average", Get(i, "fiftyDayAverage", None))
        m8  == SetItem(m7, "200 Day Average", Get(i, "twoHundredDayAverage", None))
        m9  == SetItem(m8, "Forward PE", Get(i, "forwardPE", None))
        m10 == SetItem(m9, "PEG Ratio", Get(i, "pegRatio", None))
        m11 == SetItem(m10, "Beta", Get(i, "beta", None))
        m12 == SetItem(m11, "Volume", Get(i, "volume", None))
        metrics == SetItem(m12, "Avg Volume", Get(i, "averageVolume", None))
    IN  IF dy.kind = "exc" THEN dy
        ELSE DataFrame([j \in 1..Len(metrics) |-> metrics[j][1]],
                       [j \in 1..Len(metrics) |-> FormatCell(metrics[j][2])])

-----------------------------------------------------------------------------
(* The metrics deriver on its own: a record is drawn and the table is       *)
(* derived from it.                                                         *)

\* The source keys, in the order in which the function reads them.
SourceKeys ==
    <<"marketCap", "trailingPE", "trailingEps", "dividendYield", "fiftyTwoWeekHigh",
      "fiftyTwoWeekLow", "fiftyDayAverage", "twoHundredDayAverage", "forwardPE",
      "pegRatio", "beta", "volume", "averageVolume">>

KeySet == {SourceKeys[j] : j \in 1..Len(SourceKeys)}

WithKey(d, key, value) ==
    [x \in DOMAIN d \cup {key} |-> IF x = key THEN value ELSE d[x]]

WithoutKey(d, key) == [x \in DOMAIN d \ {key} |-> d[x]]

\* Values a provider may put under a key: None, numbers (zero, a fraction, a
\* negative), booleans, strings (empty or not) and a dict.
MetricValues ==
    { None,
      Num(FALSE, 0, 0), Num(FALSE, 0, 25), Num(TRUE, 1500, 500),
      Bool(TRUE), Bool(FALSE),
      Str(<<>>), Str(<<"B", "u", "y">>),
      Dict(1) }

\* The records with at most MaxKeys source keys, each with any value.
MetricRecords ==
    UNION {[S -> MetricValues] : S \in {T \in SUBSET KeySet : Cardinality(T) <= MaxKeys}}

InitMetricsIdle ==
    /\ num = None
    /\ formatted = Pending
    /\ text_input = <<>>
    /\ selected_period = "1 Month"
    /\ response = Pending
    /\ page = Pending

InitMetrics ==
    /\ tiesUp \in BOOLEAN
    /\ info \in MetricRecords
    /\ metrics_df = Pending
    /\ InitMetricsIdle

\* metrics_df = get_financial_metrics(info)
CallGetFinancialMetrics ==
    /\ metrics_df = Pending
    /\ metrics_df' = get_financial_metrics(info)
    /\ UNCHANGED <<tiesUp, num, formatted, info, text_input, selected_period, response, page>>

NextMetrics == CallGetFinancialMetrics

SpecMetrics == InitMetrics /\ [][NextMetrics]_vars

\* A value for each key as the provider reports it for a large company.
Typical ==
    [marketCap |-> Num(FALSE, 2000000000, 0), trailingPE |-> Num(FALSE, 28, 500),
     trailingEps |-> Num(FALSE, 6, 130), dividendYield |-> Num(FALSE, 0, 25),
     fiftyTwoWeekHigh |-> Num(FALSE, 199, 620), fiftyTwoWeekLow |-> Num(FALSE, 124, 170),
     fiftyDayAverage |-> Num(FALSE, 181, 5), twoHundredDayAverage |-> Num(FALSE, 172, 995),
     forwardPE |-> Num(FALSE, 26, 315), pegRatio |-> Num(FALSE, 2, 100),
     beta |-> Num(FALSE, 1, 290), volume |-> Num(FALSE, 48000000, 0),
     averageVolume |-> Num(FALSE, 57123456, 0)]

\* The dividend yields of the records below: the typical one, zero, a negative.
PresenceYields == {Typical["dividendYield"], Num(FALSE, 0, 0), Num(TRUE, 0, 500)}

\* Every subset of the source keys is the key set of some record, each key with
\* its typical value.
PresenceRecords ==
    {[key \in S |-> IF key = "dividendYield" THEN yield ELSE Typical[key]] :
        S \in SUBSET KeySet, yield \in PresenceYields}

InitPresence ==
    /\ tiesUp \in BOOLEAN
    /\ info \in PresenceRecords
    /\ metrics_df = Pending
    /\ InitMetricsIdle

NextPresence == CallGetFinancialMetrics

SpecPresence == InitPresence /\ [][NextPresence]_vars

-----------------------------------------------------------------------------
(* Arithmetic of the price header.                                          *)

IsZero(n) == n.whole = 0 /\ n.milli = 0

\* A number as a signed count of thousandths, and back.
ToMilli(n) == (IF n.neg THEN -1 ELSE 1) * (n.whole * MilliPerUnit + n.milli)

FromMilli(t) ==
    LET a == IF t < 0 THEN -t ELSE t
    IN  Num(t < 0, a \div MilliPerUnit, a % MilliPerUnit)

\* a - b: a number for numbers (and bools), TypeError otherwise.
Minus(a, b) ==
    IF IsIntOrFloat(a) /\ IsIntOrFloat(b)
    THEN FromMilli(ToMilli(AsNumber(a)) - ToMilli(AsNumber(b)))
    ELSE Raised("TypeError")

\* a / b: the exact quotient as a fraction, ZeroDivisionError for a zero b.
Divide(a, b) ==
    IF ~(IsIntOrFloat(a) /\ IsIntOrFloat(b)) THEN Raised("TypeError")
    ELSE IF IsZero(AsNumber(b)) THEN Raised("ZeroDivisionError")
    ELSE LET x == AsNumber(a)
             y == AsNumber(b)
         IN  [kind |-> "ratio", neg |-> x.neg # y.neg,
              numer |-> x.whole * MilliPerUnit + x.milli,
              denom |-> y.whole * MilliPerUnit + y.milli]

\* r * n for a fraction r
RatioTimes(r, n) ==
    IF r.kind = "exc" THEN r ELSE [r EXCEPT !.numer = r.numer * n]

\* f"{r:.2f}" for a fraction r
FormatRatio2(r) ==
    LET scaled == r.numer * 100
        q == scaled \div r.denom
        rem2 == 2 * (scaled % r.denom)
        h == IF rem2 > r.denom \/ (rem2 = r.denom /\ tiesUp) THEN q + 1 ELSE q
    IN  (IF r.neg THEN <<"-">> ELSE <<>>)
        \o Digits(h \div 100)
        \o <<".", DigitChar[((h % 100) \div 10) + 1], DigitChar[(h % 10) + 1]>>

-----------------------------------------------------------------------------
(* get_stock_data and the script's render pass.                             *)

RaisedWith(type, msg) == [kind |-> "exc", type |-> type, msg |-> msg]

\* A DataFrame of price history: the Close column, oldest row first.
Frame(close) == [kind |-> "frame", close |-> close]

\* A dict with its items
Map(items) == [kind |-> "dict", len |-> Cardinality(DOMAIN items), items |-> items]

\* str.upper() over the letters the symbols typed here use
UpperChar(c) ==
    CASE c = "a" -> "A"
      [] c = "l" -> "L"
      [] c = "p" -> "P"
      [] c = "z" -> "Z"
      [] OTHER -> c

Upper(s) == [j \in 1..Len(s) |-> UpperChar(s[j])]

period_options ==
    [label \in {"1 Month", "3 Months", "6 Months", "1 Year", "2 Years", "5 Years", "Max"} |->
        CASE label = "1 Month" -> "1mo"
          [] label = "3 Months" -> "3mo"
          [] label = "6 Months" -> "6mo"
          [] label = "1 Year" -> "1y"
          [] label = "2 Years" -> "2y"
          [] label = "5 Years" -> "5y"
          [] label = "Max" -> "max"]

\* The provider client answers the calls of the try block in order: history
\* first, then info; the first that raises ends the block with str(e).
get_stock_data(symbol, range, resp) ==
    IF resp.history.kind = "exc" THEN <<None, None, Str(resp.history.msg)>>
    ELSE IF resp.info.kind = "exc" THEN <<None, None, Str(resp.info.msg)>>
    ELSE <<resp.history, resp.info, None>>

\* A figure with the three traces of the Close, High and Low columns.
plot_stock_chart(data, symbol) ==
    [widget |-> "plotly_chart",
     traces |-> <<"Close Price", "High", "Low">>,
     title |-> <<symbol, " Stock Price">>,
     points |-> Len(data.close)]

\* An anchor that downloads the frame as CSV under `filename`.
get_table_download_link(rows, filename, text) ==
    [widget |-> "markdown", download |-> filename, text |-> text, rows |-> rows]

\* A guard that looks at the current price only.
ShowsPriceHeaderForPriceAlone(current_price, previous_close) == Truthy(current_price)

\* if current_price and previous_close:
ShowsPriceHeader(current_price, previous_close) ==
    Truthy(current_price) /\ Truthy(previous_close)

UncaughtException(e, at) == [widget |-> "exception", type |-> e.type, at |-> at]

\* The price header: <<>> when the guard skips it, the markdown element when it
\* renders, the exception when its arithmetic raises.
PriceHeader(history_data, items) ==
    LET current_price == Get(items, "currentPrice", history_data.close[Len(history_data.close)])
        previous_close == Get(items, "previousClose", None)
        price_change == Minus(current_price, previous_close)
        quotient == Divide(price_change, previous_close)
        price_change_percent == RatioTimes(quotient, Hundred)
        rising == ~price_change.neg \/ IsZero(price_change)
    IN  IF ~ShowsPriceHeader(current_price, previous_close) THEN <<>>
        ELSE IF price_change.kind = "exc"
            THEN <<UncaughtException(price_change, "price_header")>>
        ELSE IF quotient.kind = "exc"
            THEN <<UncaughtException(quotient, "price_header")>>
        ELSE <<[widget |-> "price_header",
                price |-> <<"$">> \o FormatFixed2(AsNumber(current_price), 1),
                color |-> IF rising THEN "green" ELSE "red",
                change |-> (IF rising THEN <<"+">> ELSE <<>>)
                            \o FormatFixed2(price_change, 1),
                percent |-> (IF rising THEN <<"+">> ELSE <<>>)
                            \o FormatRatio2(price_change_percent) \o <<"%">>]>>

Aborted(elements) ==
    Len(elements) > 0 /\ elements[Len(elements)].widget = "exception"

\* The second column: the metrics table, its download link and the summary.
MetricsColumn(symbol, stock_info) ==
    LET df == get_financial_metrics(stock_info.items)
    IN  <<[widget |-> "subheader", text |-> <<"Key Financial Metrics">>]>>
        \o (IF ~Truthy(stock_info)
            THEN <<[widget |-> "info",
                    text |-> <<"Financial metrics not available for this stock.">>]>>
            ELSE IF df.kind = "exc" THEN <<UncaughtException(df, "metrics")>>
            ELSE <<[widget |-> "table", Metric |-> df.Metric, Value |-> df.Value],
                   get_table_download_link(Len(df.Metric),
                        <<symbol, "_financial_metrics.csv">>, "Download Metrics as CSV"),
                   [widget |-> "subheader", text |-> <<"Company Information">>],
                   [widget |-> "write",
                    text |-> <<Get(stock_info.items, "longBusinessSummary",
                                   Str(<<"No information available">>))>>]>>)

\* The branch that renders the data: the first column, then the second; an
\* exception that nothing catches ends the pass where it is raised.
DataView(symbol, history_data, stock_info) ==
    LET company_name == Get(stock_info.items, "shortName", Str(symbol))
        title == <<[widget |-> "subheader", text |-> <<company_name, " (", symbol, ")">>]>>
        header == PriceHeader(history_data, stock_info.items)
        first == title \o header
    IN  IF Aborted(first) THEN first
        ELSE first
             \o <<plot_stock_chart(history_data, symbol),
                  [widget |-> "subheader", text |-> <<"Historical Price Data">>],
                  [widget |-> "dataframe", rows |-> Len(history_data.close)],
                  get_table_download_link(Len(history_data.close),
                        <<symbol, "_historical_data.csv">>,
                        "Download Historical Data as CSV")>>
             \o MetricsColumn(symbol, stock_info)

\* if ticker_symbol: ... -- the main content section
MainContent(ticker_symbol, period, resp) ==
    LET fetched == get_stock_data(ticker_symbol, period, resp)
        history_data == fetched[1]
        stock_info == fetched[2]
        error == fetched[3]
    IN  IF ~Truthy(Str(ticker_symbol)) THEN <<>>
        ELSE IF Truthy(error)
            THEN <<[widget |-> "error",
                    text |-> <<"Error retrieving data for ", ticker_symbol, ": ", error.s>>]>>
        ELSE IF history_data # None /\ Len(history_data.close) > 0 /\ Truthy(stock_info)
            THEN DataView(ticker_symbol, history_data, stock_info)
        ELSE <<[widget |-> "warning",
                text |-> <<"No data found for symbol: ", ticker_symbol,
                           ". Please check if the symbol is correct.">>]>>

\* One run of the script, from the widgets to the footer.
Script(text, label, resp) ==
    LET ticker_symbol == Upper(text)
        period == period_options[label]
        main == MainContent(ticker_symbol, period, resp)
    IN  IF Aborted(main) THEN main
        ELSE main \o <<[widget |-> "footer"]>>

-----------------------------------------------------------------------------
(* A render pass: the widgets hold what the user entered, the provider      *)
(* answers in one of the ways below, and the script runs once.              *)

Texts == {<<>>, <<"a", "a", "p", "l">>, <<"A", "A", "P", "L">>, <<"z", "z">>}

Messages == {<<>>, <<"4", "0", "4">>}

Closes == {<<>>, <<Num(FALSE, 149, 500)>>, <<Num(FALSE, 149, 500), Num(FALSE, 0, 0)>>}

\* What currentPrice and previousClose may hold.
PriceValues ==
    {None, Num(FALSE, 0, 0), Num(FALSE, 150, 250), Num(FALSE, 148, 0), Str(<<"N", "/", "A">>)}

PriceParts ==
    UNION {[S -> PriceValues] : S \in SUBSET {"currentPrice", "previousClose"}}

\* The rest of the record: nothing, a name, a name and two metrics, a dividend
\* yield that is a dict, every metric.
OtherParts ==
    { <<>>,
      [shortName |-> Str(<<"A", "p", "p", "l", "e">>)],
      [shortName |-> Str(<<"A", "p", "p", "l", "e">>), marketCap |-> Typical["marketCap"],
       dividendYield |-> Typical["dividendYield"]],
      [dividendYield |-> Dict(1)],
      Typical }

Merged(f, g) ==
    [key \in DOMAIN f \cup DOMAIN g |-> IF key \in DOMAIN f THEN f[key] ELSE g[key]]

Responses ==
    [history : {RaisedWith("Exception", m) : m \in Messages} \cup {Frame(c) : c \in Closes},
     info : {RaisedWith("Exception", m) : m \in Messages} \cup {None}
            \cup {Map(Merged(f, g)) : f \in PriceParts, g \in OtherParts}]

Init ==
    /\ tiesUp \in BOOLEAN
    /\ text_input \in Texts
    /\ selected_period \in DOMAIN period_options
    /\ response \in Responses
    /\ page = Pending
    /\ num = None
    /\ formatted = Pending
    /\ info = <<>>
    /\ metrics_df = Pending

RenderPass ==
    /\ page = Pending
    /\ page' = [kind |-> "page", elements |-> Script(text_input, selected_period, response)]
    /\ UNCHANGED <<tiesUp, num, formatted, info, metrics_df, text_input, selected_period,
                   response>>

Next == RenderPass

Spec == Init /\ [][Next]_vars

-----------------------------------------------------------------------------
(* Reading a formatted string back, for the statements about its shape.     *)

IsDigit(c) == \E d \in 1..10 : DigitChar[d] = c

DigitValue(c) == (CHOOSE d \in 1..10 : DigitChar[d] = c) - 1

RECURSIVE ParseNat(_)
ParseNat(ds) ==
    IF ds = <<>> THEN 0
    ELSE ParseNat(SubSeq(ds, 1, Len(ds) - 1)) * 10 + DigitValue(ds[Len(ds)])

\* The magnitude suffix of a string: its last character when that is a letter
\* B, M or K, and "" otherwise.
Suffix(s) == IF Len(s) > 0 /\ s[Len(s)] \in {"B", "M", "K"} THEN s[Len(s)] ELSE ""

\* What stands between the first character and the suffix.
Body(s) == SubSeq(s, 2, Len(s) - (IF Suffix(s) = "" THEN 0 ELSE 1))

Unsigned(b) == IF Len(b) > 0 /\ b[1] = "-" THEN Tail(b) ELSE b

\* One or more digits, a point, exactly two digits.
HasTwoDecimals(u) ==
    /\ Len(u) >= 4
    /\ u[Len(u) - 2] = "."
    /\ \A i \in (1..Len(u)) \ {Len(u) - 2} : IsDigit(u[i])

ParsedHundredths(u) ==
    ParseNat(SubSeq(u, 1, Len(u) - 3)) * 100 + ParseNat(SubSeq(u, Len(u) - 1, Len(u)))

\* p hundredths is the magnitude of n / divisor to 2 decimals: it is within half
\* a hundredth of the exact quotient.
IsQuotientTo2Decimals(p, n, divisor) ==
    IF divisor = 1
    THEN LET t == n.whole * MilliPerUnit + n.milli
         IN  p * 10 - 5 <= t /\ t <= p * 10 + 5
    ELSE LET per == divisor \div 100
         IN  /\ p * per - per \div 2 <= n.whole
             /\ \/ n.whole < p * per + per \div 2
                \/ n.whole = p * per + per \div 2 /\ n.milli = 0

IsNegative(n) == n.neg /\ (n.whole > 0 \/ n.milli > 0)

FormattedNumber == formatted # Pending /\ num.kind = "num"

\* C3: format_number(v) picks the suffix from |v| alone (>= 1e9 "B", >= 1e6 "M",
\* >= 1e3 "K", else none), prints "$" first and the quotient of v by the band's
\* divisor with exactly 2 decimal digits; the band is chosen before rounding:
\* 999_999 gives "$1000.00K", 1_000_000 "$1.00M", 1_000_000_000 "$1.00B".
C3_BandFromMagnitude ==
    /\ FormattedNumber =>
        LET a == num.whole
            band == IF a >= Billion THEN "B" ELSE IF a >= Million THEN "M"
                    ELSE IF a >= Thousand THEN "K" ELSE ""
            divisor == IF a >= Billion THEN Billion ELSE IF a >= Million THEN Million
                       ELSE IF a >= Thousand THEN Thousand ELSE 1
            s == formatted.s
            u == Unsigned(Body(s))
        IN  /\ formatted.kind = "str"
            /\ s[1] = "$"
            /\ Suffix(s) = band
            /\ HasTwoDecimals(u)
            /\ IsQuotientTo2Decimals(ParsedHundredths(u), num, divisor)
    /\ (formatted # Pending /\ num = Num(FALSE, 999999, 0))
            => formatted.s = <<"$", "1", "0", "0", "0", ".", "0", "0", "K">>
    /\ (formatted # Pending /\ num = Num(FALSE, Million, 0))
            => formatted.s = <<"$", "1", ".", "0", "0", "M">>
    /\ (formatted # Pending /\ num = Num(FALSE, Billion, 0))
            => formatted.s = <<"$", "1", ".", "0", "0", "B">>

\* 999_999 has been formatted, to "$1000.00K".
C3_Witness ==
    /\ num = Num(FALSE, 999999, 0)
    /\ formatted = Str(<<"$", "1", "0", "0", "0", ".", "0", "0", "K">>)

\* C4 as stated: the string format_number(v) returns starts with "-" if and only
\* if v < 0.
C4_StartsWithMinusIffNegative ==
    FormattedNumber => (formatted.s[1] = "-" <=> IsNegative(num))

\* C4 as amended: the string starts with "$", and the character after the "$" is
\* "-" exactly when v is negative or the float negative zero, in every band and
\* also when the result rounds to zero.
C4_SignFollowsDollar ==
    FormattedNumber =>
        /\ formatted.s[1] = "$"
        /\ formatted.s[2] = "-" <=> num.neg
        /\ IsNegative(num) => formatted.s[2] = "-"

\* -0.001, which rounds to zero, has been formatted, to "$-0.00".
C4_Witness ==
    /\ num = Num(TRUE, 0, 1)
    /\ formatted = Str(<<"$", "-", "0", ".", "0", "0">>)

-----------------------------------------------------------------------------
(* Statements about the metrics table.                                      *)

MetricNames ==
    <<"Market Cap", "PE Ratio", "EPS (TTM)", "Dividend Yield", "52 Week High",
      "52 Week Low", "50 Day Average", "200 Day Average", "Forward PE", "PEG Ratio",
      "Beta", "Volume", "Avg Volume">>

Derived == metrics_df # Pending

Returned == metrics_df.kind = "df"

KeyIndex(key) == CHOOSE j \in 1..Len(SourceKeys) : SourceKeys[j] = key

\* C1: whichever subset of the 13 source keys the record holds, the empty and the
\* full one included, the call returns a table of exactly 13 rows whose metric
\* names are the 13 names in their fixed order.
C1_ThirteenRowsInOrder ==
    Derived =>
        /\ Returned
        /\ metrics_df.Metric = MetricNames
        /\ Len(metrics_df.Value) = 13
        /\ \A j \in 1..13 : metrics_df.Value[j].kind = "str"

\* The table of a record that holds some of the source keys and lacks others.
C1_Witness ==
    /\ Returned
    /\ DOMAIN info = {"marketCap", "beta"}
    /\ Len(metrics_df.Metric) = 13

\* C2: in the table returned, the value of every metric whose source key is
\* absent is "N/A" (not "$0.00", not ""), and the other rows are what they are
\* when the key is present: for each key of the record, the table of the record
\* without it has "N/A" in that row and the same values in every other row.
C2_AbsentKeyNotAvailable ==
    Returned =>
        /\ \A j \in 1..Len(SourceKeys) :
                SourceKeys[j] \notin DOMAIN info
                    => /\ metrics_df.Value[j] = Str(NotAvailable)
                       /\ metrics_df.Value[j] # Str(<<"$", "0", ".", "0", "0">>)
                       /\ metrics_df.Value[j] # Str(<<>>)
        /\ \A key \in DOMAIN info :
                LET without == get_financial_metrics(WithoutKey(info, key))
                IN  without.kind = "df" =>
                        \A j \in 1..Len(SourceKeys) :
                            without.Value[j] = IF j = KeyIndex(key) THEN Str(NotAvailable)
                                               ELSE metrics_df.Value[j]

\* A table in which one row is formatted and the twelve others, whose keys are
\* absent, are "N/A".
C2_Witness ==
    /\ Returned
    /\ DOMAIN info = {"beta"}
    /\ info["beta"] = Num(TRUE, 1500, 500)
    /\ metrics_df.Value[KeyIndex("beta")] = Str(<<"$", "-", "1", ".", "5", "0", "K">>)
    /\ metrics_df.Value[KeyIndex("volume")] = Str(NotAvailable)

\* C5: when dividendYield is present with a number v, zero and negatives
\* included, the call returns a table whose Dividend Yield row is the formatting
\* of 100 * v; the row is "N/A" when the key is absent.
C5_DividendYieldTimesHundred ==
    /\ (Derived /\ "dividendYield" \in DOMAIN info /\ info["dividendYield"].kind = "num")
            => /\ Returned
               /\ metrics_df.Value[KeyIndex("dividendYield")]
                      = format_number(Times(info["dividendYield"], Hundred))
    /\ (Returned /\ "dividendYield" \notin DOMAIN info)
            => metrics_df.Value[KeyIndex("dividendYield")] = Str(NotAvailable)

\* C6: in the table returned, the value of every metric whose source key is
\* present with a value that is not a number (a string, a boolean, a dict, None)
\* is "N/A".
C6_NonNumericNotAvailable ==
    Returned =>
        \A j \in 1..Len(SourceKeys) :
            (SourceKeys[j] \in DOMAIN info /\ info[SourceKeys[j]].kind # "num")
                => metrics_df.Value[j] = Str(NotAvailable)

\* C7: the call raises for no record: it returns a table of 13 rows in which
\* every key that is missing, or whose value is None, a string or a dict, shows
\* "N/A".
C7_NeverRaises ==
    Derived =>
        /\ Returned
        /\ Len(metrics_df.Value) = 13
        /\ \A j \in 1..Len(SourceKeys) :
                (SourceKeys[j] \notin DOMAIN info
                    \/ info[SourceKeys[j]].kind \in {"none", "str", "dict"})
                    => metrics_df.Value[j] = Str(NotAvailable)

-----------------------------------------------------------------------------
(* Statements about the render pass.                                        *)

Rendered == page # Pending

NonEmptyTicker == Len(Upper(text_input)) > 0

Has(widget) == \E i \in 1..Len(page.elements) : page.elements[i].widget = widget

HasDownload(suffix) ==
    \E i \in 1..Len(page.elements) :
        /\ page.elements[i].widget = "markdown"
        /\ page.elements[i].download = <<Upper(text_input), suffix>>

HasExceptionAt(at) ==
    \E i \in 1..Len(page.elements) :
        page.elements[i].widget = "exception" /\ page.elements[i].at = at

FetchRaised == response.history.kind = "exc" \/ response.info.kind = "exc"

\* str(e) of the exception the try block caught
RaisedText ==
    IF response.history.kind = "exc" THEN response.history.msg ELSE response.info.msg

AnyData == Has("plotly_chart") \/ Has("dataframe") \/ Has("table") \/ Has("markdown")

\* C8: in a pass with a non-empty ticker in which the provider client raises, an
\* error message with the exception's text is shown, whatever that text is, and
\* no chart, table, download link or warning is rendered.
C8_FetchErrorShown ==
    (Rendered /\ NonEmptyTicker /\ FetchRaised) =>
        /\ \E i \in 1..Len(page.elements) :
                /\ page.elements[i].widget = "error"
                /\ page.elements[i].text[4] = RaisedText
        /\ ~AnyData
        /\ ~Has("warning")

SeriesEmpty == response.history.kind = "frame" /\ Len(response.history.close) = 0

MetadataEmpty ==
    response.info = None \/ (response.info.kind = "dict" /\ response.info.len = 0)

\* The chart of three series, the historical table, the metrics table of 13 rows
\* and both download links, together.
FullDataView ==
    /\ \E i \in 1..Len(page.elements) :
            /\ page.elements[i].widget = "plotly_chart"
            /\ Len(page.elements[i].traces) = 3
    /\ Has("dataframe")
    /\ \E i \in 1..Len(page.elements) :
            /\ page.elements[i].widget = "table"
            /\ Len(page.elements[i].Metric) = 13
    /\ HasDownload("_historical_data.csv")
    /\ HasDownload("_financial_metrics.csv")

\* C9: a pass with a non-empty ticker ends in exactly one of: the error message,
\* the warning, the data view. The warning is shown, with no data, exactly when
\* the fetch raised nothing and the series or the metadata is empty; the data
\* view is shown exactly when the fetch raised nothing and both are non-empty.
C9_ThreeOutcomes ==
    (Rendered /\ NonEmptyTicker) =>
        /\ \/ Has("error") /\ ~Has("warning") /\ ~AnyData
           \/ ~Has("error") /\ Has("warning") /\ ~AnyData
           \/ ~Has("error") /\ ~Has("warning") /\ FullDataView
        /\ Has("warning") <=> (~FetchRaised /\ (SeriesEmpty \/ MetadataEmpty))
        /\ FullDataView <=> (~FetchRaised /\ ~SeriesEmpty /\ ~MetadataEmpty)

InDataView ==
    Rendered /\ Len(page.elements) > 0 /\ page.elements[1].widget = "subheader"

LastClose == response.history.close[Len(response.history.close)]

\* metadata currentPrice, or the last close of the series when the key is absent
CurrentPrice == Get(response.info.items, "currentPrice", LastClose)

NonZeroNumber(v) == v.kind = "num" /\ ~IsZero(v)

HeaderSkipped == InDataView /\ ~Has("price_header") /\ ~HasExceptionAt("price_header")

====
